---- MODULE Spec2Model ----
(***************************************************************************)
(* Model of src/bot.py: the anonymous 1:1 chat-pairing relay.              *)
(*                                                                         *)
(* State: the three in-memory structures (waiting, partners,               *)
(* last_partner), the persisted forwards table with its AUTOINCREMENT      *)
(* counter, and, as observation of the outside world, the handler that ran *)
(* last (ev) together with the outbound Bot API calls it issued (out).     *)
(* The profiles and reports tables serve /set, /profile, /report and the   *)
(* inline buttons.                                                         *)
(*                                                                         *)
(* Application.builder().token(...).build() (bot.py:426) leaves            *)
(* concurrent_updates off, so the library awaits one handler to its end    *)
(* before it dispatches the next update: every handler is one action.      *)
(* SpecConcurrent drops that guarantee for /chat and /exit and runs them   *)
(* as coroutines that interleave at their awaits (tasks).                  *)
(* Every outbound call may raise (network / platform error); its outcome   *)
(* is an input of the action.  The ts columns (timestamps) are not         *)
(* modelled.                                                               *)
(***************************************************************************)
EXTENDS Integers, Sequences, FiniteSets, TLC

\* ---------------------------------------------------------------- bounds
NumUsers == 3
NumPairingUsers == 4
NumProfileUsers == 2
MaxRecords == 1
MaxMsgId == 1
MaxReports == 1
MaxDbRows == 1
MaxTasks == 2

\* update.effective_user.id: platform user ids are positive integers.
Users == 1..NumUsers

\* The users of SpecPairing, which runs /chat and /exit alone: one more, so
\* that two pairings are live at once.
PairingUsers == 1..NumPairingUsers

\* The users of SpecProfile, which runs /set and /profile alone.
ProfileUsers == 1..NumProfileUsers

\* Message ids are assigned by the platform per chat; the handlers only
\* store them and pass them on.  MsgIds are the ids of incoming messages
\* (update.message.message_id), SentIds the ids the platform returns for
\* messages the bot sends; the two ranges are kept apart so that a stored id
\* shows which of the two it is.
MsgIds == 1..MaxMsgId
SentIds == {MaxMsgId + i : i \in 1..MaxMsgId}

\* Python's None (dict.get on a missing key, fetchone() without a row).
None == -1

VARIABLES waiting, partners, last_partner, forwards, fwd_seq,
          profiles, reports, rep_seq, tasks, ev, out

vars == <<waiting, partners, last_partner, forwards, fwd_seq,
          profiles, reports, rep_seq, tasks, ev, out>>

mem == <<waiting, partners, last_partner>>

\* The forwards table with its AUTOINCREMENT counter, and the two tables
\* the pairing and relay handlers never touch (profiles, reports).
fwd_table == <<forwards, fwd_seq>>
other_tables == <<profiles, reports, rep_seq>>

\* ------------------------------------------------------- Python helpers
\* x in deque
InDeque(q, x) == \E i \in 1..Len(q) : q[i] = x

\* A remove that finds nothing to drop.
DequeRemove_none(q, x) == q

\* deque.remove(x): drops the first occurrence (ValueError is swallowed
\* at the call site, so a missing x leaves the deque alone).
DequeRemove(q, x) ==
    IF InDeque(q, x)
    THEN LET i == CHOOSE j \in 1..Len(q) :
                     q[j] = x /\ \A k \in 1..(j - 1) : q[k] # x
         IN SubSeq(q, 1, i - 1) \o SubSeq(q, i + 1, Len(q))
    ELSE q

\* d[k] = v
DictSet(d, k, v) == [x \in (DOMAIN d) \cup {k} |-> IF x = k THEN v ELSE d[x]]

\* del d[k] with KeyError swallowed
DictDel(d, k) == [x \in (DOMAIN d) \ {k} |-> d[x]]

\* d.get(k)
DictGet(d, k) == IF k \in DOMAIN d THEN d[k] ELSE None

\* A popleft that reads the head and leaves it in the deque.
PopLeft_keep(q) == q

\* waiting.popleft(): what is left of the deque (the popped id is Head)
PopLeft(q) == Tail(q)

\* A pairing that writes the requester's entry only.
Pair_oneway(d, user, partner) == DictSet(d, user, partner)

\* A pairing that writes each user under their own key.
Pair_self(d, user, partner) == DictSet(DictSet(d, user, user), partner, partner)

\* partners[user] = partner; partners[partner] = user   (also last_partner)
Pair(d, user, partner) == DictSet(DictSet(d, user, partner), partner, user)

\* A leave that drops the leaver's entry only.
Unpair_self(d, user, partner) == DictDel(d, user)

\* del partners[partner]; del partners[user], each KeyError swallowed
Unpair(d, user, partner) == DictDel(DictDel(d, partner), user)

\* truth value of an id-or-None ("if partner:", "if not partner:")
Truthy(x) == x # None /\ x # 0

\* ------------------------------------------------------- outbound calls
\* One Bot API call: which method, the chat it addresses, what it carries,
\* whether it succeeded, and the message id involved (returned by a
\* successful content send, passed to delete_message, 0 otherwise).
Call(api, chat, text, ok, id) ==
    [api |-> api, chat |-> chat, text |-> text, ok |-> ok, msg_id |-> id]

\* update.message.reply_text(text): answers in the chat the update came from.
Reply(user, text, ok) == Call("reply_text", user, text, ok, 0)

\* context.bot.send_message(chat_id=chat, text=text) carrying a notice.
Notice(chat, text, ok) == Call("send_message", chat, text, ok, 0)

\* error_handler: tells the user of the update that an error occurred; a
\* failure of that send is swallowed.
error_handler(user, okE) == <<Notice(user, "error_occurred", okE)>>

\* A run of awaited calls outside any try block: the first call that
\* raises ends the handler, the calls after it are never made, and the
\* library hands the exception to error_handler.
FirstFail(calls) ==
    IF \E i \in 1..Len(calls) : ~calls[i].ok
    THEN CHOOSE i \in 1..Len(calls) :
             ~calls[i].ok /\ \A k \in 1..(i - 1) : calls[k].ok
    ELSE 0

Uncaught(calls, user, okE) ==
    IF FirstFail(calls) = 0
    THEN calls
    ELSE SubSeq(calls, 1, FirstFail(calls)) \o error_handler(user, okE)

\* A run whose exception escapes the handler: error_handler reports it.
Caught_propagates(calls, user) ==
    IF FirstFail(calls) = 0
    THEN calls
    ELSE SubSeq(calls, 1, FirstFail(calls)) \o error_handler(user, TRUE)

\* The same run inside try / except Exception: the first call that raises
\* ends the run and the exception goes no further than the handler's log.
Caught(calls, user) ==
    IF FirstFail(calls) = 0
    THEN calls
    ELSE SubSeq(calls, 1, FirstFail(calls))

\* ------------------------------------------------------------- updates
\* The content of an incoming message as the handlers test it: which of
\* message.text, message.photo, message.sticker is set.  The platform sets
\* at most one of them; a message with none is any other kind (voice,
\* document, ...).
Messages ==
    {m \in [text : BOOLEAN, photo : BOOLEAN, sticker : BOOLEAN] :
        Cardinality({f \in {"text", "photo", "sticker"} : m[f]}) <= 1}

\* main(): forward_messages is registered for filters.TEXT & ~COMMAND,
\* filters.PHOTO and filters.Sticker.ALL only.
Routed(m) == m.text \/ m.photo \/ m.sticker

\* The handler that ran last: its name, update.effective_user.id and
\* whether update.effective_chat.type is "private" (only chat_cmd reads the
\* chat type; the other handlers record TRUE).
Event(op, user, private) == [op |-> op, user |-> user, private |-> private]

Init ==
    /\ waiting = <<>>
    /\ partners = <<>>
    /\ last_partner = <<>>
    /\ forwards = {}
    /\ fwd_seq = 0
    /\ profiles = <<>>
    /\ reports = {}
    /\ rep_seq = 0
    /\ tasks = <<>>
    /\ ev = Event("init", 0, TRUE)
    /\ out = <<>>

\* ------------------------------------------------------------- /chat
\* A /chat that never takes the requester for paired.
AlreadyInChat_never(d, user) == FALSE

\* "if user in partners" of chat_cmd
AlreadyInChat(d, user) == user \in DOMAIN d

\* A /chat that takes the queue for empty whatever it holds.
HasWaiting_never(q) == FALSE

\* "if waiting:" of chat_cmd
HasWaiting(q) == Len(q) > 0

\* A /chat that queues its requester without looking at anything.
chat_cmd_enqueue_always(user, private) ==
    /\ ev' = Event("chat", user, private)
    /\ UNCHANGED tasks
    /\ waiting' = Append(waiting, user)
    /\ out' = <<Reply(user, "waiting", TRUE)>>
    /\ UNCHANGED <<partners, last_partner, fwd_table, other_tables>>

chat_cmd(user, private) ==
    /\ ev' = Event("chat", user, private)
    /\ UNCHANGED tasks
    /\ UNCHANGED <<fwd_table, other_tables>>
    /\ IF ~private
       THEN /\ \E ok, okE \in BOOLEAN :
                   out' = Uncaught(<<Reply(user, "private_only", ok)>>, user, okE)
            /\ UNCHANGED mem
       ELSE IF AlreadyInChat(partners, user)
       THEN /\ \E ok, okE \in BOOLEAN :
                   out' = Uncaught(<<Reply(user, "already_in_chat", ok)>>, user, okE)
            /\ UNCHANGED mem
       ELSE IF InDeque(waiting, user)
       THEN /\ \E ok, okE \in BOOLEAN :
                   out' = Uncaught(<<Reply(user, "already_waiting", ok)>>, user, okE)
            /\ UNCHANGED mem
       ELSE IF HasWaiting(waiting)
       THEN LET partner == Head(waiting) IN
            IF partner = user
            THEN \* popleft, then appendleft puts the head back
                 /\ waiting' = <<partner>> \o PopLeft(waiting)
                 /\ \E ok, okE \in BOOLEAN :
                        out' = Uncaught(<<Reply(user, "waiting", ok)>>, user, okE)
                 /\ UNCHANGED <<partners, last_partner>>
            ELSE /\ waiting' = PopLeft(waiting)
                 /\ partners' = Pair(partners, user, partner)
                 /\ last_partner' = Pair(last_partner, user, partner)
                 /\ \E ok1, ok2, okE \in BOOLEAN :
                        out' = Uncaught(<<Notice(user, "partner_found", ok1),
                                          Notice(partner, "partner_found", ok2)>>,
                                        user, okE)
       ELSE /\ waiting' = Append(waiting, user)
            /\ \E ok, okE \in BOOLEAN :
                   out' = Uncaught(<<Reply(user, "waiting", ok)>>, user, okE)
            /\ UNCHANGED <<partners, last_partner>>

\* ------------------------------------------------------------- /exit
exit_cmd(user) ==
    /\ ev' = Event("exit", user, TRUE)
    /\ UNCHANGED tasks
    /\ UNCHANGED <<fwd_table, other_tables>>
    /\ IF InDeque(waiting, user)
       THEN /\ waiting' = DequeRemove(waiting, user)
            /\ \E ok, okE \in BOOLEAN :
                   out' = Uncaught(<<Reply(user, "left_queue", ok)>>, user, okE)
            /\ UNCHANGED <<partners, last_partner>>
       ELSE IF user \in DOMAIN partners
       THEN LET partner == DictGet(partners, user) IN
            /\ partners' = Unpair(partners, user, partner)
            /\ last_partner' = DictSet(last_partner, user, partner)
            /\ \E ok1, ok2, okE \in BOOLEAN :
                   \* the notice to the partner sits in try / except: pass
                   out' = (IF Truthy(partner)
                           THEN Caught(<<Notice(partner, "partner_left", ok1)>>, user)
                           ELSE <<>>)
                          \o Uncaught(<<Reply(user, "left_chat", ok2)>>, user, okE)
            /\ UNCHANGED waiting
       ELSE /\ \E ok, okE \in BOOLEAN :
                   out' = Uncaught(<<Reply(user, "not_in_chat_or_queue", ok)>>,
                                   user, okE)
            /\ UNCHANGED mem

\* ------------------------------------------------------ forwards table
\* An insert that stores the two message ids in each other's column.
db_add_forward_swapped(tbl, seq, user_id, partner_id, orig_msg_id, fwd_msg_id, content_type) ==
    tbl \cup {[id |-> seq + 1, user_id |-> user_id, partner_id |-> partner_id,
               orig_msg_id |-> fwd_msg_id, fwd_msg_id |-> orig_msg_id,
               content_type |-> content_type]}

\* db_add_forward: INSERT; the AUTOINCREMENT id is one more than the
\* largest id the table ever held.
db_add_forward(tbl, seq, user_id, partner_id, orig_msg_id, fwd_msg_id, content_type) ==
    tbl \cup {[id |-> seq + 1, user_id |-> user_id, partner_id |-> partner_id,
               orig_msg_id |-> orig_msg_id, fwd_msg_id |-> fwd_msg_id,
               content_type |-> content_type]}

\* fetchone() without a row: None, written as a row of Nones.
NoRow ==
    [id |-> None, user_id |-> None, partner_id |-> None, orig_msg_id |-> None,
     fwd_msg_id |-> None, content_type |-> "None"]

\* A lookup without the WHERE user_id=? clause: the newest row of anyone.
db_get_last_forward_any(tbl, user_id) ==
    IF tbl # {}
    THEN CHOOSE r \in tbl : \A q \in tbl : q.id <= r.id
    ELSE NoRow

\* db_get_last_forward: ... WHERE user_id=? ORDER BY id DESC LIMIT 1
db_get_last_forward(tbl, user_id) ==
    IF \E r \in tbl : r.user_id = user_id
    THEN CHOOSE r \in tbl :
             r.user_id = user_id
             /\ \A q \in tbl : q.user_id = user_id => q.id <= r.id
    ELSE NoRow

\* db_delete_forward_record: DELETE FROM forwards WHERE id=?
db_delete_forward_record(tbl, record_id) == {r \in tbl : r.id # record_id}

\* -------------------------------------------- content messages (relay)
\* the if / elif chain of forward_messages
ContentType(m) ==
    IF m.text THEN "text"
    ELSE IF m.photo THEN "photo"
    ELSE IF m.sticker THEN "sticker"
    ELSE "other"

SendApi(m) ==
    IF m.text THEN "send_message"
    ELSE IF m.photo THEN "send_photo"
    ELSE IF m.sticker THEN "send_sticker"
    ELSE "send_message"

SendText(m) ==
    IF m.text \/ m.photo \/ m.sticker THEN "content" ELSE "message_forwarded"

\* A relay that falls back on the sender's last partner.
relay_partner_last(user) ==
    IF user \in DOMAIN partners
    THEN DictGet(partners, user)
    ELSE DictGet(last_partner, user)

\* The two early returns: "if user not in partners: return", then
\* partner = partners.get(user) and "if not partner: return".  None stands
\* for "return".
relay_partner(user) ==
    IF user \notin DOMAIN partners
    THEN None
    ELSE IF ~Truthy(DictGet(partners, user)) THEN None ELSE DictGet(partners, user)

forward_messages(user, m, msg_id) ==
    /\ Routed(m)
    /\ fwd_seq < MaxRecords
    /\ ev' = Event("relay", user, TRUE)
    /\ UNCHANGED tasks
    /\ UNCHANGED <<mem, other_tables>>
    /\ LET partner == relay_partner(user) IN
       IF partner = None
       THEN /\ out' = <<>>
            /\ UNCHANGED <<forwards, fwd_seq>>
       ELSE \/ \E fwd_id \in SentIds :
                 \* the send returned the sent message, whose id is fwd_id
                 /\ out' = Caught(<<Call(SendApi(m), partner, SendText(m), TRUE,
                                         fwd_id)>>, user)
                 /\ forwards' = db_add_forward(forwards, fwd_seq, user, partner,
                                               msg_id, fwd_id, ContentType(m))
                 /\ fwd_seq' = fwd_seq + 1
            \/ \* the send raised: db_add_forward is skipped
               /\ out' = Caught(<<Call(SendApi(m), partner, SendText(m), FALSE, 0)>>,
                                user)
               /\ UNCHANGED <<forwards, fwd_seq>>

\* ------------------------------------------------------- /delete_last
delete_last_cmd(user) ==
    /\ ev' = Event("delete_last", user, TRUE)
    /\ UNCHANGED tasks
    /\ UNCHANGED <<mem, fwd_seq, other_tables>>
    /\ LET row == db_get_last_forward(forwards, user) IN
       IF row = NoRow
       THEN /\ \E ok, okE \in BOOLEAN :
                   out' = Uncaught(<<Reply(user, "no_forwards", ok)>>, user, okE)
            /\ UNCHANGED forwards
       ELSE \/ \* delete_message raised: the except branch awaits the reply
               \* before it removes the record
               \E ok, okE \in BOOLEAN :
                  /\ out' = <<Call("delete_message", row.partner_id, "", FALSE,
                                   row.fwd_msg_id)>>
                            \o Uncaught(<<Reply(user, "could_not_delete", ok)>>,
                                        user, okE)
                  /\ forwards' = IF ok
                                 THEN db_delete_forward_record(forwards, row.id)
                                 ELSE forwards
            \/ \E ok, okE \in BOOLEAN :
                  /\ out' = <<Call("delete_message", row.partner_id, "", TRUE,
                                   row.fwd_msg_id)>>
                            \o Uncaught(<<Reply(user, "deleted", ok)>>, user, okE)
                  /\ forwards' = db_delete_forward_record(forwards, row.id)

\* ------------------------------------------------------ profiles table
\* A column or keyword argument of text type that holds Python's None.
NoText == "None"

\* int(bool(x)) as db_set_profile stores the premium flag
IntBool(x) == IF x # 0 THEN 1 ELSE 0

\* bool(row[2]) as db_get_profile reads it back
Bool(n) == n # 0

\* An upsert that replaces the whole row by the keyword arguments.
db_set_profile_replace(tbl, user_id, age, gender, is_premium) ==
    DictSet(tbl, user_id,
            [age |-> age, gender |-> gender,
             is_premium |-> IF is_premium # None THEN IntBool(is_premium) ELSE 0])

\* db_set_profile: with a row, one UPDATE per keyword argument that is not
\* None; without a row, an INSERT of the arguments as they are, the premium
\* flag defaulting to 0.  A row is [age, gender, is_premium], kept per
\* user_id (the primary key).
db_set_profile(tbl, user_id, age, gender, is_premium) ==
    IF user_id \in DOMAIN tbl
    THEN [tbl EXCEPT ![user_id] =
             [age |-> IF age # None THEN age ELSE @.age,
              gender |-> IF gender # NoText THEN gender ELSE @.gender,
              is_premium |-> IF is_premium # None
                             THEN IntBool(is_premium) ELSE @.is_premium]]
    ELSE DictSet(tbl, user_id,
                 [age |-> age, gender |-> gender,
                  is_premium |-> IF is_premium # None
                                 THEN IntBool(is_premium) ELSE 0])

\* db_get_profile: the row with the flag as a bool, or the defaults.
db_get_profile(tbl, user_id) ==
    IF user_id \in DOMAIN tbl
    THEN [age |-> tbl[user_id].age, gender |-> tbl[user_id].gender,
          is_premium |-> Bool(tbl[user_id].is_premium)]
    ELSE [age |-> None, gender |-> NoText, is_premium |-> FALSE]

\* ---------------------------------------------------- /set and /profile
\* context.args of /set: the words after the command.  The value is
\* " ".join(args[1:]).strip(); the inputs carry one value word, for which
\* the join and the strip return the word itself.
SetArgs ==
    { <<>>, <<"age">>, <<"age", "30">>, <<"AGE", "0">>, <<"age", "abc">>,
      <<"gender", "Male">>, <<"gender", "other">>,
      <<"premium", "ON">>, <<"premium", "off">>, <<"colour", "red">> }

\* str.lower() on the words of SetArgs
Lower(s) ==
    CASE s = "AGE" -> "age"
      [] s = "Male" -> "male"
      [] s = "ON" -> "on"
      [] OTHER -> s

\* int(value) succeeds on a decimal numeral, raises ValueError otherwise
IsInt(s) == s \in {"0", "30"}

IntOf(s) == IF s = "30" THEN 30 ELSE 0

set_cmd(user, args) ==
    /\ ev' = Event("set", user, TRUE)
    /\ UNCHANGED tasks
    /\ UNCHANGED <<mem, fwd_table, reports, rep_seq>>
    /\ IF Len(args) < 2
       THEN /\ \E ok, okE \in BOOLEAN :
                   out' = Uncaught(<<Reply(user, "set_usage", ok)>>, user, okE)
            /\ UNCHANGED profiles
       ELSE LET field == Lower(args[1])
                value == args[2]
            IN
            IF field = "age"
            THEN IF IsInt(value)
                 THEN /\ profiles' = db_set_profile(profiles, user, IntOf(value),
                                                    NoText, None)
                      /\ \E ok, okE \in BOOLEAN :
                             out' = Uncaught(<<Reply(user, "age_set", ok)>>,
                                             user, okE)
                 ELSE /\ \E ok, okE \in BOOLEAN :
                             out' = Uncaught(<<Reply(user, "invalid_age", ok)>>,
                                             user, okE)
                      /\ UNCHANGED profiles
            ELSE IF field = "gender"
            THEN /\ profiles' = db_set_profile(profiles, user, None,
                                               Lower(value), None)
                 /\ \E ok, okE \in BOOLEAN :
                        out' = Uncaught(<<Reply(user, "gender_set", ok)>>,
                                        user, okE)
            ELSE IF field = "premium"
            THEN IF Lower(value) \in {"on", "1", "true", "yes"}
                 THEN /\ profiles' = db_set_profile(profiles, user, None, NoText, 1)
                      /\ \E ok, okE \in BOOLEAN :
                             out' = Uncaught(<<Reply(user, "premium_on", ok)>>,
                                             user, okE)
                 ELSE /\ profiles' = db_set_profile(profiles, user, None, NoText, 0)
                      /\ \E ok, okE \in BOOLEAN :
                             out' = Uncaught(<<Reply(user, "premium_off", ok)>>,
                                             user, okE)
            ELSE /\ \E ok, okE \in BOOLEAN :
                        out' = Uncaught(<<Reply(user, "unknown_field", ok)>>,
                                        user, okE)
                 /\ UNCHANGED profiles

\* /profile reads the row and replies with its fields.
profile_cmd(user) ==
    /\ ev' = Event("profile", user, TRUE)
    /\ UNCHANGED tasks
    /\ UNCHANGED <<mem, fwd_table, other_tables>>
    /\ \E ok, okE \in BOOLEAN :
           out' = Uncaught(<<Reply(user, "profile", ok)>>, user, okE)

\* ------------------------------------------------------- reports table
\* db_add_report: INSERT with the next AUTOINCREMENT id.
db_add_report(tbl, seq, reporter_id, partner_id, reason) ==
    tbl \cup {[id |-> seq + 1, reporter_id |-> reporter_id,
               partner_id |-> partner_id, reason |-> reason]}

\* context.args of /report, and " ".join(context.args) of them ("" when
\* there are none).
ReportArgs == {<<>>, <<"spam">>}

ReportReason(args) == IF Len(args) > 0 THEN args[1] ELSE ""

report_cmd(user, args) ==
    /\ rep_seq < MaxReports
    /\ ev' = Event("report", user, TRUE)
    /\ UNCHANGED tasks
    /\ UNCHANGED <<mem, fwd_table, profiles>>
    /\ LET partner == DictGet(partners, user) IN
       IF Truthy(partner)
       THEN /\ reports' = db_add_report(reports, rep_seq, user, partner,
                                        ReportReason(args))
            /\ rep_seq' = rep_seq + 1
            /\ \E ok, okE \in BOOLEAN :
                   out' = Uncaught(<<Reply(user, "report_saved", ok)>>, user, okE)
       ELSE /\ \E ok, okE \in BOOLEAN :
                   out' = Uncaught(<<Reply(user, "not_in_active_chat", ok)>>,
                                   user, okE)
            /\ UNCHANGED <<reports, rep_seq>>

\* ------------------------------------------------------- inline buttons
\* callback_data of the six buttons of the /start keyboard
CallbackData == {"chat", "leave", "report", "search_gender", "settings", "help"}

\* query.answer() and query.edit_message_text(text)
Answer(user, ok) == Call("answer_callback_query", user, "", ok, 0)
EditText(user, text, ok) == Call("edit_message_text", user, text, ok, 0)

callback_handler(user, data) ==
    /\ rep_seq < MaxReports
    /\ ev' = Event("callback", user, TRUE)
    /\ UNCHANGED tasks
    /\ UNCHANGED <<mem, fwd_table, profiles>>
    /\ \E ok0, ok, okE \in BOOLEAN :
          LET partner == DictGet(partners, user)
              saved == data = "report" /\ Truthy(partner)
              text == IF data = "report"
                      THEN IF saved THEN "report_saved" ELSE "not_in_active_chat"
                      ELSE data
          IN
          /\ out' = Uncaught(<<Answer(user, ok0), EditText(user, text, ok)>>,
                             user, okE)
          /\ IF ok0 /\ saved
             THEN \* the row is written before the text is edited
                  /\ reports' = db_add_report(reports, rep_seq, user, partner,
                                              "Reported via button")
                  /\ rep_seq' = rep_seq + 1
             ELSE UNCHANGED <<reports, rep_seq>>

\* ------------------------------------------- handlers as coroutines
\* /chat and /exit as the coroutines they are, for a dispatcher that starts
\* the handler of the next update while earlier ones are suspended.  A
\* coroutine runs without interruption from one await to the next (asyncio
\* has one thread and switches at awaits only).  tasks holds the handlers
\* in flight, in the order they were started: each with its locals (user,
\* partner) and pc, the await it is suspended at:
\*   "partner_found_user" / "partner_found_partner"   bot.py:210 / 211
\*   "partner_left"                                   bot.py:239 (in try)
\*   "error_occurred"                                 bot.py:415 (in try)
\*   any other value: the reply_text of that name, after which the handler
\*   returns.
Task(op, user, partner, pc) ==
    [op |-> op, user |-> user, partner |-> partner, pc |-> pc]

\* the call task t awaits, with the outcome it is going to have
AwaitedCall(t, ok) ==
    IF t.pc = "partner_found_user" THEN Notice(t.user, "partner_found", ok)
    ELSE IF t.pc = "partner_found_partner"
    THEN Notice(t.partner, "partner_found", ok)
    ELSE IF t.pc = "partner_left" THEN Notice(t.partner, "partner_left", ok)
    ELSE IF t.pc = "error_occurred" THEN Notice(t.user, "error_occurred", ok)
    ELSE Reply(t.user, t.pc, ok)

\* where t goes when that call returns (ok) or raises: the next await of
\* its handler, the error handler's notice, or "done"
NextPc(t, ok) ==
    IF t.pc = "error_occurred" THEN "done"
    ELSE IF t.pc = "partner_left" THEN "left_chat"
    ELSE IF ~ok THEN "error_occurred"
    ELSE IF t.pc = "partner_found_user" THEN "partner_found_partner"
    ELSE "done"

\* An /exit that notifies the partner first and cleans up afterwards.
exit_cleanup_after_await == FALSE

\* exit_cmd deletes the two partners entries and writes last_partner
\* (bot.py:228-236) before its first await (239).
exit_cleanup_before_await == TRUE

\* chat_cmd up to its first await
chat_cmd_begin(user, private) ==
    /\ Len(tasks) < MaxTasks
    /\ ev' = Event("chat", user, private)
    /\ out' = <<>>
    /\ UNCHANGED <<fwd_table, other_tables>>
    /\ IF ~private
       THEN /\ tasks' = Append(tasks, Task("chat", user, None, "private_only"))
            /\ UNCHANGED mem
       ELSE IF AlreadyInChat(partners, user)
       THEN /\ tasks' = Append(tasks, Task("chat", user, None, "already_in_chat"))
            /\ UNCHANGED mem
       ELSE IF InDeque(waiting, user)
       THEN /\ tasks' = Append(tasks, Task("chat", user, None, "already_waiting"))
            /\ UNCHANGED mem
       ELSE IF HasWaiting(waiting)
       THEN LET partner == Head(waiting) IN
            IF partner = user
            THEN /\ waiting' = <<partner>> \o PopLeft(waiting)
                 /\ tasks' = Append(tasks, Task("chat", user, partner, "waiting"))
                 /\ UNCHANGED <<partners, last_partner>>
            ELSE /\ waiting' = PopLeft(waiting)
                 /\ partners' = Pair(partners, user, partner)
                 /\ last_partner' = Pair(last_partner, user, partner)
                 /\ tasks' = Append(tasks, Task("chat", user, partner,
                                                "partner_found_user"))
       ELSE /\ waiting' = Append(waiting, user)
            /\ tasks' = Append(tasks, Task("chat", user, None, "waiting"))
            /\ UNCHANGED <<partners, last_partner>>

\* exit_cmd up to its first await
exit_cmd_begin(user) ==
    /\ Len(tasks) < MaxTasks
    /\ ev' = Event("exit", user, TRUE)
    /\ out' = <<>>
    /\ UNCHANGED <<fwd_table, other_tables>>
    /\ IF InDeque(waiting, user)
       THEN /\ waiting' = DequeRemove(waiting, user)
            /\ tasks' = Append(tasks, Task("exit", user, None, "left_queue"))
            /\ UNCHANGED <<partners, last_partner>>
       ELSE IF user \in DOMAIN partners
       THEN LET partner == DictGet(partners, user) IN
            /\ IF exit_cleanup_before_await \/ ~Truthy(partner)
               THEN /\ partners' = Unpair(partners, user, partner)
                    /\ last_partner' = DictSet(last_partner, user, partner)
               ELSE UNCHANGED <<partners, last_partner>>
            /\ tasks' = Append(tasks,
                               Task("exit", user, partner,
                                    IF Truthy(partner) THEN "partner_left"
                                    ELSE "left_chat"))
            /\ UNCHANGED waiting
       ELSE /\ tasks' = Append(tasks,
                               Task("exit", user, None, "not_in_chat_or_queue"))
            /\ UNCHANGED mem

\* The await of the i-th handler in flight completes, and the handler runs
\* on to its next await or to its end.
resume(i) ==
    LET t == tasks[i] IN
    /\ ev' = Event("resume", t.user, TRUE)
    /\ UNCHANGED <<waiting, fwd_table, other_tables>>
    /\ \E ok \in BOOLEAN :
          /\ out' = <<AwaitedCall(t, ok)>>
          /\ tasks' = IF NextPc(t, ok) = "done"
                      THEN SubSeq(tasks, 1, i - 1) \o SubSeq(tasks, i + 1, Len(tasks))
                      ELSE [tasks EXCEPT ![i].pc = NextPc(t, ok)]
    /\ IF t.pc = "partner_left" /\ ~exit_cleanup_before_await
       THEN /\ partners' = Unpair(partners, t.user, t.partner)
            /\ last_partner' = DictSet(last_partner, t.user, t.partner)
       ELSE UNCHANGED <<partners, last_partner>>

Next ==
    \/ \E user \in Users, private \in BOOLEAN : chat_cmd(user, private)
    \/ \E user \in Users : exit_cmd(user)
    \/ \E user \in Users, m \in Messages, msg_id \in MsgIds :
           forward_messages(user, m, msg_id)
    \/ \E user \in Users : delete_last_cmd(user)

Spec == Init /\ [][Next]_vars

\* The pairing engine alone: /chat and /exit, from a larger set of users.
NextPairing ==
    \/ \E user \in PairingUsers, private \in BOOLEAN : chat_cmd(user, private)
    \/ \E user \in PairingUsers : exit_cmd(user)

SpecPairing == Init /\ [][NextPairing]_vars

\* The profile store alone: /set and /profile.
NextProfile ==
    \/ \E user \in ProfileUsers, args \in SetArgs : set_cmd(user, args)
    \/ \E user \in ProfileUsers : profile_cmd(user)

SpecProfile == Init /\ [][NextProfile]_vars

\* Every handler that the pairing, relay, profile and report components are
\* made of.  DbRows counts the rows inserted so far over the three tables;
\* a handler that may insert runs while the count is below MaxDbRows, the
\* /set of a user who has a row (an UPDATE) at any time.
\* The /set inputs of SpecEvents: one that writes nothing, one that writes.
SetArgsEvents == {<<>>, <<"age", "30">>}

DbRows == fwd_seq + rep_seq + Cardinality(DOMAIN profiles)

NextEvents ==
    \/ \E user \in Users, private \in BOOLEAN : chat_cmd(user, private)
    \/ \E user \in Users : exit_cmd(user)
    \/ \E user \in Users, m \in Messages, msg_id \in MsgIds :
           DbRows < MaxDbRows /\ forward_messages(user, m, msg_id)
    \/ \E user \in Users : delete_last_cmd(user)
    \/ \E user \in Users, args \in SetArgsEvents :
           /\ user \in DOMAIN profiles \/ DbRows < MaxDbRows
           /\ set_cmd(user, args)
    \/ \E user \in Users : profile_cmd(user)
    \/ \E user \in Users, args \in ReportArgs :
           DbRows < MaxDbRows /\ report_cmd(user, args)
    \/ \E user \in Users, data \in CallbackData :
           DbRows < MaxDbRows /\ callback_handler(user, data)

SpecEvents == Init /\ [][NextEvents]_vars

\* /chat and /exit with their handlers interleaved at the awaits: a new
\* handler may start while up to MaxTasks - 1 others are suspended.
NextConcurrent ==
    \/ \E user \in Users, private \in BOOLEAN : chat_cmd_begin(user, private)
    \/ \E user \in Users : exit_cmd_begin(user)
    \/ \E i \in 1..Len(tasks) : resume(i)

SpecConcurrent == Init /\ [][NextConcurrent]_vars

\* ------------------------------------------------------------ vocabulary
Paired(d, u) == u \in DOMAIN d

Idle(u) == ~Paired(partners, u) /\ ~InDeque(waiting, u)

\* some call of the handler that ran last matches (api, chat, text)
Issued(calls, api, chat, text) ==
    \E i \in 1..Len(calls) :
        calls[i].api = api /\ calls[i].chat = chat /\ calls[i].text = text

\* ------------------------------------------------------------------ C1
\* C1: in every reachable state PartnerMap is symmetric: whenever
\* partners[a] = b, b is a key too and partners[b] = a.
C1_PartnerMapSymmetric ==
    \A a \in DOMAIN partners :
        /\ partners[a] \in DOMAIN partners
        /\ partners[partners[a]] = a

\* A pairing is live right after a relay, and one of its two users had
\* left an earlier pairing with the third user.
C1_Witness ==
    /\ ev.op = "relay"
    /\ \E a, b, c \in Users :
           /\ Cardinality({a, b, c}) = 3
           /\ DictGet(partners, a) = b
           /\ DictGet(last_partner, c) = a
           /\ ~Paired(partners, c)

\* ------------------------------------------------------------------ C2
\* C2: in every reachable state no user is both in WaitingQueue and a key
\* of PartnerMap.
C2_WaitingExcludesPaired ==
    \A u \in Users : ~(InDeque(waiting, u) /\ Paired(partners, u))

\* Two users are paired while the third one waits, and the last request
\* was a paired user's /chat, turned down.
C2_Witness ==
    /\ ev.op = "chat"
    /\ ev.private
    /\ Paired(partners, ev.user)
    /\ \E w \in Users : InDeque(waiting, w)

\* ------------------------------------------------------------------ C3
\* the step is one /chat of idle user u taken while the queue is non-empty
C3_Case(u) ==
    /\ ev'.op = "chat"
    /\ ev'.user = u
    /\ Idle(u)
    /\ Len(waiting) > 0

\* u is now paired with the user that headed the queue, which left it
C3_PairedWithHead(u) ==
    /\ DictGet(partners', u) = Head(waiting)
    /\ DictGet(partners', Head(waiting)) = u
    /\ waiting' = Tail(waiting)

\* C3 as stated: whenever an idle user requests pairing while WaitingQueue
\* is non-empty, that same step pairs the user with the head of the queue
\* and removes the head from the queue.
C3_Original == [][\A u \in Users : C3_Case(u) => C3_PairedWithHead(u)]_vars

\* C3 amended: the same for a request made in a private chat (and then a
\* request on an empty queue makes the requester the whole queue, so A
\* then B leaves A paired with B and the queue empty); a /chat sent from
\* a chat that is not private pairs nobody and leaves the queue as it was.
C3_PrivateFifoPairing ==
    [][\A u \in Users :
          /\ (C3_Case(u) /\ ev'.private) => C3_PairedWithHead(u)
          /\ (ev'.op = "chat" /\ ev'.user = u /\ ev'.private /\ Idle(u)
                 /\ Len(waiting) = 0)
              => (waiting' = <<u>> /\ partners' = partners)
          /\ (ev'.op = "chat" /\ ev'.user = u /\ ~ev'.private)
              => (waiting' = waiting /\ partners' = partners)]_vars

\* A private /chat has just paired its sender with the user who waited,
\* and the queue is empty.
C3_Witness ==
    /\ ev.op = "chat"
    /\ ev.private
    /\ Paired(partners, ev.user)
    /\ Len(out) > 0
    /\ out[1].text = "partner_found"
    /\ waiting = <<>>

\* ------------------------------------------------------------------ C4
\* the first call of the handler is the reply `text` to u
C4_Rejected(u, text) ==
    /\ Len(out') > 0
    /\ out'[1].api = "reply_text"
    /\ out'[1].chat = u
    /\ out'[1].text = text
    /\ UNCHANGED <<waiting, partners, last_partner>>

\* C4 as stated: a /chat of a paired user is answered "already in a chat",
\* a /chat of a waiting user "already waiting", and neither changes
\* WaitingQueue, PartnerMap or LastPartnerMap.
C4_Original ==
    [][\A u \in Users :
          (ev'.op = "chat" /\ ev'.user = u) =>
              /\ Paired(partners, u) => C4_Rejected(u, "already_in_chat")
              /\ (InDeque(waiting, u) /\ ~Paired(partners, u))
                    => C4_Rejected(u, "already_waiting")]_vars

\* C4 amended: that holds for a /chat sent in a private chat; sent from a
\* chat that is not private, a /chat is answered with the private-chat
\* notice whatever the sender's state.  All three rejections leave
\* WaitingQueue, PartnerMap and LastPartnerMap as they were.
C4_PrivateRejections ==
    [][\A u \in Users :
          (ev'.op = "chat" /\ ev'.user = u) =>
              /\ (ev'.private /\ Paired(partners, u))
                    => C4_Rejected(u, "already_in_chat")
              /\ (ev'.private /\ InDeque(waiting, u) /\ ~Paired(partners, u))
                    => C4_Rejected(u, "already_waiting")
              /\ ~ev'.private => C4_Rejected(u, "private_only")]_vars

\* A waiting user's private /chat has just been answered "already
\* waiting" while the two other users are paired.
C4_Witness ==
    /\ ev.op = "chat"
    /\ ev.private
    /\ InDeque(waiting, ev.user)
    /\ out[1].text = "already_waiting"
    /\ \E a \in Users : Paired(partners, a)

\* ------------------------------------------------------------------ C5
\* C5: a /exit of user u paired with p removes partners[u] and
\* partners[p], sets last_partner[u] = p and sends p the "partner left"
\* notice; afterwards u and p are idle, and the queue, every other
\* pairing and last_partner[p] are as before.  (Checked under SpecPairing.)
C5_LeaveEndsPairing ==
    [][\A u, p \in PairingUsers :
          (ev'.op = "exit" /\ ev'.user = u /\ DictGet(partners, u) = p) =>
              /\ ~Paired(partners', u)
              /\ ~Paired(partners', p)
              /\ DictGet(last_partner', u) = p
              /\ Issued(out', "send_message", p, "partner_left")
              /\ ~InDeque(waiting', u)
              /\ ~InDeque(waiting', p)
              /\ waiting' = waiting
              /\ \A x \in PairingUsers \ {u, p} :
                     DictGet(partners', x) = DictGet(partners, x)
              /\ DictGet(last_partner', p) = DictGet(last_partner, p)]_vars

\* A paired user has just left: the notice went to the partner, both are
\* unpaired, and the pairing of the two other users is still live.
C5_Witness ==
    /\ ev.op = "exit"
    /\ \E p, a, b \in PairingUsers :
           /\ Cardinality({ev.user, p, a, b}) = 4
           /\ DictGet(last_partner, ev.user) = p
           /\ Issued(out, "send_message", p, "partner_left")
           /\ ~Paired(partners, p)
           /\ ~Paired(partners, ev.user)
           /\ DictGet(partners, a) = b
           /\ DictGet(partners, b) = a

\* ------------------------------------------------------------------ C6
\* C6: a content message from a sender with no entry in PartnerMap issues
\* no outbound call, adds no forwards row and changes no in-memory state.
C6_UnpairedRelayNoOp ==
    [][\A u \in Users :
          (ev'.op = "relay" /\ ev'.user = u /\ ~Paired(partners, u)) =>
              /\ out' = <<>>
              /\ forwards' = forwards
              /\ fwd_seq' = fwd_seq
              /\ UNCHANGED <<waiting, partners, last_partner>>]_vars

\* An unpaired user whose former partner is on record has just sent a
\* content message, and nothing went out.
C6_Witness ==
    /\ ev.op = "relay"
    /\ ~Paired(partners, ev.user)
    /\ DictGet(last_partner, ev.user) \in Users
    /\ out = <<>>

\* ------------------------------------------------------------------ C7
\* the send method and the stored content kind that go with a message
C7_Api(m) ==
    IF m.text THEN "send_message"
    ELSE IF m.photo THEN "send_photo"
    ELSE IF m.sticker THEN "send_sticker"
    ELSE "send_message"

C7_Kind(m) ==
    IF m.text THEN "text"
    ELSE IF m.photo THEN "photo"
    ELSE IF m.sticker THEN "sticker"
    ELSE "other"

C8_FailedSendSwallowed ==
    [][\A u \in Users :
          (ev'.op = "relay" /\ ev'.user = u /\ Paired(partners, u)
             /\ Len(out') > 0 /\ ~out'[1].ok) =>
              /\ forwards' = forwards
              /\ fwd_seq' = fwd_seq
              /\ Len(out') = 1
              /\ \A i \in 1..Len(out') : out'[i].chat # u
              /\ UNCHANGED <<waiting, partners, last_partner>>]_vars

\* A paired user's content message has just failed to go out.
C8_Witness ==
    /\ ev.op = "relay"
    /\ Paired(partners, ev.user)
    /\ Len(out) = 1
    /\ ~out[1].ok
    /\ out[1].chat = partners[ev.user]

\* ------------------------------------------------------------------ C9
\* C9: a /delete_last of a user who has a forwards row removes that row
\* whether the external delete succeeds or fails, and answers "deleted" on
\* success, "could not delete" on failure.
C9_Original ==
    [][\A u \in Users :
          (ev'.op = "delete_last" /\ ev'.user = u
             /\ \E r \in forwards : r.user_id = u) =>
              /\ Len(out') > 0
              /\ out'[1].api = "delete_message"
              /\ \A r \in forwards :
                    (r.user_id = u
                       /\ \A q \in forwards : q.user_id = u => q.id <= r.id)
                    => r \notin forwards'
              /\ out'[1].ok => Issued(out', "reply_text", u, "deleted")
              /\ ~out'[1].ok => Issued(out', "reply_text", u, "could_not_delete")]_vars

\* ----------------------------------------------------------------- C10
\* C10: a /delete_last of a user with no forwards row is answered "no
\* forwarded messages found", calls delete_message not at all and leaves
\* the forwards table unchanged.
C10_NothingToRetract ==
    [][\A u \in Users :
          (ev'.op = "delete_last" /\ ev'.user = u
             /\ ~\E r \in forwards : r.user_id = u) =>
              /\ Len(out') > 0
              /\ out'[1].api = "reply_text"
              /\ out'[1].chat = u
              /\ out'[1].text = "no_forwards"
              /\ \A i \in 1..Len(out') : out'[i].api # "delete_message"
              /\ forwards' = forwards
              /\ fwd_seq' = fwd_seq]_vars

\* A user without a row has just asked to retract while the table holds
\* the partner's row.
C10_Witness ==
    /\ ev.op = "delete_last"
    /\ out[1].text = "no_forwards"
    /\ ~\E r \in forwards : r.user_id = ev.user
    /\ \E r \in forwards : r.partner_id = ev.user

\* C11: setProfile writes only the fields it is given.  A /set age <a> by
\* user u leaves getProfile(u) with age = a and with the gender and the
\* premium flag getProfile(u) returned before the call, whether u had a
\* profile row or not (without a row these are the defaults: no gender,
\* premium false).
C11_SetAgeKeepsOthers ==
    [][\A u \in ProfileUsers, args \in SetArgs :
          (/\ Len(args) >= 2
           /\ Lower(args[1]) = "age"
           /\ IsInt(args[2])
           /\ ev'.user = u
           /\ set_cmd(u, args))
          => LET before == db_get_profile(profiles, u)
                 after == db_get_profile(profiles', u)
             IN /\ after.age = IntOf(args[2])
                /\ after.gender = before.gender
                /\ after.is_premium = before.is_premium]_vars

\* A user with a gender and the premium flag on has just set the age to 30.
C11_Witness ==
    /\ ev.op = "set"
    /\ Len(out) >= 1
    /\ out[1].text = "age_set"
    /\ ev.user \in DOMAIN profiles
    /\ db_get_profile(profiles, ev.user) =
           [age |-> 30, gender |-> "male", is_premium |-> TRUE]

\* ------------------------------------------------------------------ C12
\* C12: leave is idempotent for an idle user.  A /exit by a user who is
\* neither waiting nor paired replies "not in a chat or queue" and changes
\* no state; and every /exit leaves its user idle, so that the next /exit of
\* that user is such a leave and gets that reply.
C12_IdleLeaveIdempotent ==
    [][\A u \in PairingUsers :
          (ev'.op = "exit" /\ ev'.user = u)
          => /\ Idle(u)'
             /\ Idle(u)
                => /\ Len(out') >= 1
                   /\ out'[1] = Reply(u, "not_in_chat_or_queue", out'[1].ok)
                   /\ UNCHANGED <<mem, fwd_table, other_tables>>]_vars

\* A user who left a chat before has sent /exit again and got the reply.
C12_Witness ==
    /\ ev.op = "exit"
    /\ Len(out) = 1
    /\ out[1] = Reply(ev.user, "not_in_chat_or_queue", TRUE)
    /\ ev.user \in DOMAIN last_partner
    /\ Idle(ev.user)

\* ------------------------------------------------------------------ C13
\* C13: whenever a /chat establishes a pairing, the "partner found" notice
\* is sent to the requester and to the partner, and the last_partner entries
\* of the two point at each other.
C13_Original ==
    [][\A u \in PairingUsers :
          (ev'.op = "chat" /\ ev'.user = u
             /\ ~Paired(partners, u) /\ Paired(partners', u))
          => LET p == partners'[u] IN
             /\ Issued(out', "send_message", u, "partner_found")
             /\ Issued(out', "send_message", p, "partner_found")
             /\ DictGet(last_partner', u) = p
             /\ DictGet(last_partner', p) = u]_vars

\* ------------------------------------------------------------------ C14
\* C14: after any sequence of /chat and /exit, the waiting queue never
\* holds the same user more than once.
C14_WaitingNoDuplicates ==
    \A i, j \in 1..Len(waiting) : waiting[i] = waiting[j] => i = j

\* A waiting user has sent /chat again and is still queued, once.
C14_Witness ==
    /\ ev.op = "chat"
    /\ ev.private
    /\ Len(out) >= 1
    /\ out[1].text = "already_waiting"
    /\ InDeque(waiting, ev.user)

\* ------------------------------------------------------------------ C15
\* C15: no user is ever paired with themselves: partners[u] differs from u
\* in every reachable state.
C15_NoSelfPairing ==
    \A u \in DOMAIN partners : partners[u] # u

\* A /chat has just made a second pairing next to a live one.
C15_Witness ==
    /\ ev.op = "chat"
    /\ Paired(partners, ev.user)
    /\ Issued(out, "send_message", ev.user, "partner_found")
    /\ Cardinality(DOMAIN partners) = 4

\* ------------------------------------------------------------------ C20
\* C20: the waiting queue never holds more than one user.  The queue grows
\* only in a /chat step that found it empty, so its length stays 0 or 1.
C20_WaitingAtMostOne ==
    [][/\ Len(waiting') <= 1
       /\ Len(waiting') > Len(waiting)
          => ev'.op = "chat" /\ waiting = <<>> /\ waiting' = <<ev'.user>>]_vars

\* With one pairing live, a third user has asked for a partner and waits.
C20_Witness ==
    /\ ev.op = "chat"
    /\ waiting = <<ev.user>>
    /\ Cardinality(DOMAIN partners) = 2
    /\ Len(out) = 1
    /\ out[1] = Reply(ev.user, "waiting", TRUE)

\* ------------------------------------------------------------------ C19
\* C19: a failure of the "partner left" notice during /exit is caught where
\* it is sent: the leave still removes both partners entries, leaving no
\* entry that names the leaver, and the next call of the handler is the
\* "left chat" reply to the leaver.
C19_PartnerNoticeFailureCaught ==
    [][\A u \in PairingUsers :
          (/\ ev'.op = "exit" /\ ev'.user = u
           /\ Paired(partners, u)
           /\ Len(out') >= 1
           /\ out'[1] = Notice(partners[u], "partner_left", FALSE))
          => /\ ~Paired(partners', u)
             /\ ~Paired(partners', partners[u])
             /\ \A v \in DOMAIN partners' : partners'[v] # u
             /\ Len(out') >= 2
             /\ out'[2] = Reply(u, "left_chat", out'[2].ok)]_vars

\* A paired user has left, the notice to the partner failed, and the leaver
\* got the reply.
C19_Witness ==
    /\ ev.op = "exit"
    /\ Len(out) = 2
    /\ out[1].text = "partner_left"
    /\ ~out[1].ok
    /\ out[2] = Reply(ev.user, "left_chat", TRUE)
    /\ DictGet(last_partner, ev.user) = out[1].chat
    /\ Idle(ev.user)
    /\ Idle(out[1].chat)

\* ------------------------------------------------------------------ C17
\* C17: relayed content only reaches the sender's current partner.  Every
\* call a content message of sender u issues is addressed to partners[u] as
\* it stands when the handler runs, and every forwards row it writes names u
\* as sender and that partner as recipient; an unpaired sender's message
\* issues no call and writes no row.
C17_RelayOnlyToCurrentPartner ==
    [][\A u \in Users :
          (ev'.op = "relay" /\ ev'.user = u)
          => /\ \A i \in 1..Len(out') :
                    Paired(partners, u) /\ out'[i].chat = partners[u]
             /\ \A r \in forwards' \ forwards :
                    /\ Paired(partners, u)
                    /\ r.user_id = u
                    /\ r.partner_id = partners[u]]_vars

\* A sender whose former partner is still on record as having been paired
\* with them has relayed to the new partner, and the row names the new one.
C17_Witness ==
    /\ ev.op = "relay"
    /\ Paired(partners, ev.user)
    /\ Len(out) = 1
    /\ out[1].ok
    /\ out[1].chat = partners[ev.user]
    /\ \E c \in Users :
           /\ c # partners[ev.user]
           /\ c # ev.user
           /\ DictGet(last_partner, c) = ev.user
    /\ \E r \in forwards :
           r.user_id = ev.user /\ r.partner_id = partners[ev.user]

\* ------------------------------------------------------------------ C18
\* the forwards rows of sender u, and the one among them with the highest id
C18_RowsOf(tbl, u) == {r \in tbl : r.user_id = u}

C18_Newest(tbl, u) ==
    CHOOSE r \in C18_RowsOf(tbl, u) : \A q \in C18_RowsOf(tbl, u) : q.id <= r.id

\* C18: a /delete_last of a user with forwards rows acts on the user's most
\* recent remaining row: its first call is delete_message for the message
\* and the recipient stored in that row, whoever the user is paired with
\* now, and that row, and no other, is gone afterwards, so that repeated
\* calls retract newest first, one row per call, until none remain.
C18_Original ==
    [][\A u \in Users :
          (ev'.op = "delete_last" /\ ev'.user = u /\ C18_RowsOf(forwards, u) # {})
          => LET row == C18_Newest(forwards, u) IN
             /\ Len(out') >= 1
             /\ out'[1].api = "delete_message"
             /\ out'[1].chat = row.partner_id
             /\ out'[1].msg_id = row.fwd_msg_id
             /\ forwards' = forwards \ {row}]_vars

\* ------------------------------------------------------------------ C16
\* C16: there is no timeout on waiting.  A user w in the waiting queue is
\* still in it after every step except w's own /exit and the /chat of
\* another user that pops w as head (a /chat in a private chat by a user
\* who is neither paired nor waiting).  No relay, /delete_last, /set,
\* /profile, /report, inline button, rejected /chat or /exit of another
\* user removes w.
C16_WaitingStays ==
    [][\A w, u \in Users :
          (/\ InDeque(waiting, w)
           /\ ev'.user = u
           /\ ~(ev'.op = "exit" /\ u = w)
           /\ ~(/\ ev'.op = "chat" /\ u # w /\ ev'.private
                /\ Idle(u) /\ Head(waiting) = w))
          => InDeque(waiting', w)]_vars

\* While a user waits and a report is on record, a paired user has left
\* their chat; the waiting user is still queued.
C16_Witness ==
    /\ ev.op = "exit"
    /\ Issued(out, "reply_text", ev.user, "left_chat")
    /\ Len(waiting) = 1
    /\ waiting[1] # ev.user
    /\ reports # {}

\* ------------------------------------------------------------------ C21
\* C21: with the handlers of different updates interleaved at their awaits,
\* partners stays symmetric and no user is both waiting and paired.  Every
\* check and write of waiting, partners and last_partner in /chat and /exit
\* comes before the handler's first await: a step that completes an await
\* changes none of the three.
C21_InterleavedInvariants ==
    [][/\ \A a \in DOMAIN partners' :
              /\ partners'[a] \in DOMAIN partners'
              /\ partners'[partners'[a]] = a
       /\ \A i \in 1..Len(waiting') : waiting'[i] \notin DOMAIN partners'
       /\ ev'.op = "resume" => UNCHANGED mem]_vars

\* A /chat that paired u with p is still suspended at its first notice
\* while p, in a handler started after it, has already left the chat and
\* is suspended too.
C21_Witness ==
    /\ Len(tasks) = 2
    /\ tasks[1].op = "chat"
    /\ tasks[1].pc = "partner_found_user"
    /\ tasks[2].op = "exit"
    /\ tasks[2].user = tasks[1].partner
    /\ tasks[2].partner = tasks[1].user
    /\ tasks[2].pc = "left_chat"
    /\ partners = <<>>
    /\ ev.op = "resume"

====
